---- MODULE Spec2Model ----
(***************************************************************************)
(* A model of newspaper/proxy_scraper.py: ProxyScraper.extract_article and *)
(* the helpers it calls (clean_text, remove_overlays_and_clean_content,    *)
(* f_zyte_proxy, f_oxylabs_proxy).                                         *)
(*                                                                         *)
(* Text is modelled by TLA+ strings, character by character.  A document   *)
(* (a BeautifulSoup tree) is a sequence of nodes in document order with    *)
(* parent pointers and a set of live nodes.                                *)
(***************************************************************************)
EXTENDS Integers, Sequences, FiniteSets, TLC

VARIABLES
    pc,             \* position of the call: "call", "fetched", ..., "done"
    url,            \* extract_article's arguments
    use_proxy,
    language,
    page,           \* the markup the proxy renders for url
    response,       \* line 47/49, then line 56
    cleaned_html,   \* line 57
    soup,           \* line 59; the cascade prunes it
    selector,       \* the content selector the loop of line 93 ended at
    full_content,   \* line 90
    found_content,  \* line 91
    article_text,   \* article.text, line 114
    result,         \* the record returned
    raised,         \* an exception left extract_article
    strip_calls,    \* calls of remove_overlays_and_clean_content so far
    norm_in,        \* SpecNorm: the text handed to clean_text
    norm_once,      \* SpecNorm: clean_text(norm_in)
    norm_twice      \* SpecNorm: clean_text(clean_text(norm_in))

callVars == <<url, use_proxy, language, page, response, cleaned_html, soup, selector,
              full_content, found_content, article_text, result, raised, strip_calls>>

normVars == <<norm_in, norm_once, norm_twice>>

vars == <<pc, callVars, normVars>>

----------------------------------------------------------------------------
(* Characters and strings *)

Ch(s, i) == SubSeq(s, i, i)

\* the whitespace class \s of the re module (the members the model uses)
Whitespace == {" ", "\n", "\t"}

IsSpace(s, i) == Ch(s, i) \in Whitespace

UpperToLower ==
    "A" :> "a" @@ "B" :> "b" @@ "C" :> "c" @@ "D" :> "d" @@ "E" :> "e" @@
    "F" :> "f" @@ "G" :> "g" @@ "H" :> "h" @@ "I" :> "i" @@ "J" :> "j" @@
    "K" :> "k" @@ "L" :> "l" @@ "M" :> "m" @@ "N" :> "n" @@ "O" :> "o" @@
    "P" :> "p" @@ "Q" :> "q" @@ "R" :> "r" @@ "S" :> "s" @@ "T" :> "t" @@
    "U" :> "u" @@ "V" :> "v" @@ "W" :> "w" @@ "X" :> "x" @@ "Y" :> "y" @@
    "Z" :> "z"

LowerCh(c) == IF c \in DOMAIN UpperToLower THEN UpperToLower[c] ELSE c

\* s[lo..hi] lower-cased: what a pattern compiled with re.I compares against
RECURSIVE LowerRange(_, _, _)
LowerRange(s, lo, hi) ==
    IF lo > hi THEN ""
    ELSE IF lo = hi THEN LowerCh(Ch(s, lo))
    ELSE LET mid == (lo + hi) \div 2
         IN  LowerRange(s, lo, mid) \o LowerRange(s, mid + 1, hi)

Lower(s) ==
    IF \A i \in 1..Len(s) : Ch(s, i) \notin DOMAIN UpperToLower THEN s
    ELSE LowerRange(s, 1, Len(s))

\* str.strip(): leading and trailing whitespace removed
strip(s) ==
    LET n == Len(s)
        ink(i) == ~IsSpace(s, i)
    IN  IF \A i \in 1..n : IsSpace(s, i) THEN ""
        ELSE LET first == CHOOSE i \in 1..n : ink(i) /\ \A j \in 1..(i - 1) : ~ink(j)
                 last  == CHOOSE i \in 1..n : ink(i) /\ \A j \in (i + 1)..n : ~ink(j)
             IN  SubSeq(s, first, last)

\* pattern p occurs in the lower-cased text low at position i
OccursAt(low, p, i) ==
    /\ i + Len(p) - 1 <= Len(low)
    /\ SubSeq(low, i, i + Len(p) - 1) = p

\* re.compile(p, re.I).search(s) for a pattern p of literal lower-case characters
Search(p, s) ==
    LET low == Lower(s)
    IN  \E i \in 1..Len(s) : OccursAt(low, p, i)

----------------------------------------------------------------------------
(* clean_text, lines 82-88 *)

\* where the whitespace run that holds position i starts and ends
RECURSIVE RunStart(_, _)
RunStart(s, i) == IF i > 1 /\ IsSpace(s, i - 1) THEN RunStart(s, i - 1) ELSE i

RECURSIVE RunEnd(_, _)
RunEnd(s, i) == IF i < Len(s) /\ IsSpace(s, i + 1) THEN RunEnd(s, i + 1) ELSE i

\* a newline at or before i (strictly before, when strict) in i's whitespace run
NewlineLeft(s, i, strict) ==
    \E j \in RunStart(s, i)..(IF strict THEN i - 1 ELSE i) : Ch(s, j) = "\n"

NewlineRight(s, i, strict) ==
    \E j \in (IF strict THEN i + 1 ELSE i)..RunEnd(s, i) : Ch(s, j) = "\n"

\* re.sub(r'\n\s*\n', '\n\n', s): in each whitespace run the stretch from its
\* first to its last newline (when they differ) becomes two newlines
RECURSIVE BlankLines(_, _, _)
BlankLines(s, lo, hi) ==
    IF lo > hi THEN ""
    ELSE IF lo = hi THEN
        IF ~IsSpace(s, lo) THEN Ch(s, lo)
        ELSE IF Ch(s, lo) = "\n" /\ ~NewlineLeft(s, lo, TRUE) /\ NewlineRight(s, lo, TRUE)
             THEN "\n\n"
        ELSE IF /\ NewlineLeft(s, lo, TRUE) /\ NewlineRight(s, lo, FALSE)
             THEN ""
        ELSE Ch(s, lo)
    ELSE LET mid == (lo + hi) \div 2
         IN  BlankLines(s, lo, mid) \o BlankLines(s, mid + 1, hi)

\* re.sub(r'\s+', ' ', s): every whitespace run becomes one space
RECURSIVE CollapseSpace(_, _, _)
CollapseSpace(s, lo, hi) ==
    IF lo > hi THEN ""
    ELSE IF lo = hi THEN
        IF ~IsSpace(s, lo) THEN Ch(s, lo)
        ELSE IF lo > 1 /\ IsSpace(s, lo - 1) THEN "" ELSE " "
    ELSE LET mid == (lo + hi) \div 2
         IN  CollapseSpace(s, lo, mid) \o CollapseSpace(s, mid + 1, hi)

\* the alternation of line 87, in its order
Boilerplate == <<"continue reading", "read more", "more for you", "advertisement">>

BoilerplateAt(low, i) == {k \in DOMAIN Boilerplate : OccursAt(low, Boilerplate[k], i)}

\* re.sub(r'(?i)continue reading|read more|more for you|advertisement', '', s)
\* from position from on: leftmost matches, left to right, not overlapping
RECURSIVE RemoveBoilerplate(_, _, _)
RemoveBoilerplate(s, low, from) ==
    LET hits == {i \in from..Len(s) : BoilerplateAt(low, i) # {}}
    IN  IF hits = {} THEN SubSeq(s, from, Len(s))
        ELSE LET p == CHOOSE i \in hits : \A j \in hits : i <= j
                 k == CHOOSE a \in BoilerplateAt(low, p) :
                          \A b \in BoilerplateAt(low, p) : a <= b
             IN  SubSeq(s, from, p - 1)
                   \o RemoveBoilerplate(s, low, p + Len(Boilerplate[k]))

clean_text(text) ==
    IF text = "" THEN ""
    ELSE LET t1 == BlankLines(text, 1, Len(text))
             t2 == CollapseSpace(t1, 1, Len(t1))
             t3 == RemoveBoilerplate(t2, Lower(t2), 1)
         IN  strip(t3)

----------------------------------------------------------------------------
(* Documents: what BeautifulSoup(markup, 'html.parser') builds *)

\* lines 209-223
text_patterns ==
    <<"continue reading", "read more", "more for you", "sponsored content",
      "advertisement", "recommended", "popular stories", "trending now",
      "you might like", "more stories", "more articles", "keep reading",
      "load more">>

\* the text patterns that re.compile(pattern, re.I) finds in string s; a string
\* node carries them (matches), worked out when the string comes to be
Matches(s) == {k \in DOMAIN text_patterns : Search(text_patterns[k], s)}

\* A node of the tree as written down: an element with children, or a string
NoAttrs == [id |-> "", class |-> <<>>, itemprop |-> "", role |-> "", datetime |-> <<>>]

El(tag, at, kids) == [tag |-> tag, at |-> at, kids |-> kids, text |-> "", matches |-> {}]

Tx(s) == [tag |-> "#text", at |-> NoAttrs, kids |-> <<>>, text |-> s, matches |-> Matches(s)]

\* Markup is the sequence of the nodes in document order; node i's parent is
\* parent (0 for a top-level node).  The empty sequence is the empty string.
RECURSIVE FlatNode(_, _, _), FlatKids(_, _, _)
FlatNode(t, parent, base) ==
    <<[tag |-> t.tag, at |-> t.at, text |-> t.text, matches |-> t.matches,
       parent |-> parent]>>
        \o FlatKids(t.kids, base + 1, base + 1)

FlatKids(kids, parent, base) ==
    IF kids = <<>> THEN <<>>
    ELSE LET h == FlatNode(Head(kids), parent, base)
         IN  h \o FlatKids(Tail(kids), parent, base + Len(h))

Markup(tops) == FlatKids(tops, 0, 0)

\* a node without children as it stands in markup, under parent
Flat(t, parent) == FlatNode(t, parent, 0)[1]

\* BeautifulSoup(markup, 'html.parser'): every node of the markup, all live
Parse(markup) == [nodes |-> markup, live |-> DOMAIN markup]

IsText(nodes, i) == nodes[i].tag = "#text"

RECURSIVE Ancestors(_, _)
Ancestors(nodes, i) ==
    IF nodes[i].parent = 0 THEN {}
    ELSE {nodes[i].parent} \cup Ancestors(nodes, nodes[i].parent)

\* the live nodes of the subtree at i, i included
Subtree(doc, i) == {j \in doc.live : j = i \/ i \in Ancestors(doc.nodes, j)}

\* Tag.decompose(): the element and everything under it leave the tree
decompose(doc, i) == [doc EXCEPT !.live = @ \ Subtree(doc, i)]

RECURSIVE Ordered(_)
Ordered(S) ==
    IF S = {} THEN <<>>
    ELSE LET m == CHOOSE x \in S : \A y \in S : x <= y
         IN  <<m>> \o Ordered(S \ {m})

RECURSIVE TextOf(_, _)
TextOf(nodes, ids) ==
    IF ids = <<>> THEN "" ELSE nodes[Head(ids)].text \o TextOf(nodes, Tail(ids))

\* Tag.get_text(): the strings under the element, in document order
get_text(doc, i) ==
    TextOf(doc.nodes, Ordered({j \in Subtree(doc, i) : IsText(doc.nodes, j)}))

\* str(soup): the live nodes written out.  Strings that have become neighbours
\* are one string in the markup, and a string of no characters is not there.
PrevSibling(doc, i) ==
    {j \in doc.live : /\ j < i
                      /\ doc.nodes[j].parent = doc.nodes[i].parent
                      /\ \A k \in doc.live :
                            (j < k /\ k < i) => doc.nodes[k].parent # doc.nodes[i].parent}

NextSibling(doc, i) ==
    {j \in doc.live : /\ i < j
                      /\ doc.nodes[j].parent = doc.nodes[i].parent
                      /\ \A k \in doc.live :
                            (i < k /\ k < j) => doc.nodes[k].parent # doc.nodes[i].parent}

RECURSIVE RunText(_, _)
RunText(doc, i) ==
    LET nxt == {j \in NextSibling(doc, i) : IsText(doc.nodes, j)}
    IN  doc.nodes[i].text \o (IF nxt = {} THEN "" ELSE RunText(doc, CHOOSE j \in nxt : TRUE))

FirstOfRun(doc, i) ==
    /\ IsText(doc.nodes, i)
    /\ \A j \in PrevSibling(doc, i) : ~IsText(doc.nodes, j)

Serialize(doc) ==
    LET keep == {i \in doc.live : \/ ~IsText(doc.nodes, i)
                                  \/ FirstOfRun(doc, i) /\ RunText(doc, i) # ""}
        order == Ordered(keep)
        renum(i) == IF i = 0 THEN 0 ELSE Cardinality({j \in keep : j <= i})
    IN  [k \in 1..Len(order) |->
            LET i == order[k]
                joined == IsText(doc.nodes, i) /\ RunText(doc, i) # doc.nodes[i].text
            IN  [tag     |-> doc.nodes[i].tag,
                 at      |-> doc.nodes[i].at,
                 text    |-> IF joined THEN RunText(doc, i) ELSE doc.nodes[i].text,
                 matches |-> IF joined THEN Matches(RunText(doc, i))
                                       ELSE doc.nodes[i].matches,
                 parent  |-> renum(doc.nodes[i].parent)]]

----------------------------------------------------------------------------
(* remove_overlays_and_clean_content, lines 187-243 *)

\* lines 194-200; line 227 compares without regard to case, so 'moreButton' is
\* kept here in lower case
removal_ids ==
    <<"continue-reading", "read-more", "morebutton", "more-content",
      "below-article", "bottom-article", "mid-article", "article-interruption",
      "ad-insertion", "advertisement", "sponsored-content", "taboola",
      "outbrain", "related-articles", "suggested-content", "newsletter-signup",
      "subscription-prompt", "more-for-you", "trending-stories">>

removal_classes ==
    <<"continue-reading", "read-more-button", "article-break",
      "article-interstitial", "ad-break", "sponsored-content",
      "newsletter-unit", "subscription-unit", "paywall-container",
      "below-article-content", "article-interruption", "story-interrupt",
      "mid-article-unit", "article-divide", "more-for-you",
      "content-separation", "story-break", "loading-block">>

\* the tags the walk of line 238 climbs through
WalkTags == {"button", "a", "div", "section"}

\* the length under which line 238 takes an ancestor for a widget
WidgetLimit == 1000

\* soup.find_all(id=re.compile(pattern, re.I))
FindById(doc, pattern) ==
    {i \in doc.live : doc.nodes[i].at.id # "" /\ Search(pattern, doc.nodes[i].at.id)}

\* soup.find_all(class_=re.compile(pattern, re.I)): some class of the element matches
FindByClass(doc, pattern) ==
    {i \in doc.live : \E c \in DOMAIN doc.nodes[i].at.class :
                          Search(pattern, doc.nodes[i].at.class[c])}

\* soup.find_all(string=re.compile(text_patterns[k], re.I)), in document order
FindByString(doc, k) ==
    Ordered({i \in doc.live : IsText(doc.nodes, i) /\ k \in doc.nodes[i].matches})

RECURSIVE DecomposeAll(_, _)
DecomposeAll(doc, S) ==
    IF S = {} THEN doc
    ELSE LET i == CHOOSE x \in S : \A y \in S : x <= y
         IN  DecomposeAll(decompose(doc, i), S \ {i})

\* lines 226-228
RECURSIVE IdPass(_, _)
IdPass(doc, k) ==
    IF k > Len(removal_ids) THEN doc
    ELSE LET found == FindById(doc, removal_ids[k])
         IN  IF found = {} THEN IdPass(doc, k + 1)
             ELSE IdPass(DecomposeAll(doc, found), k + 1)

\* lines 230-232
RECURSIVE ClassPass(_, _)
ClassPass(doc, k) ==
    IF k > Len(removal_classes) THEN doc
    ELSE LET found == FindByClass(doc, removal_classes[k])
         IN  IF found = {} THEN ClassPass(doc, k + 1)
             ELSE ClassPass(DecomposeAll(doc, found), k + 1)

\* lines 237-241: the while loop, from ancestor parent on
RECURSIVE WalkUp(_, _)
WalkUp(doc, parent) ==
    IF /\ parent # 0
       /\ doc.nodes[parent].tag \in WalkTags
       /\ Len(get_text(doc, parent)) < WidgetLimit
    THEN WalkUp(decompose(doc, parent), doc.nodes[parent].parent)
    ELSE doc

\* lines 236-241 for the strings found for one pattern.  st.stale records that
\* the loop came to a string which an earlier walk had decomposed: its .parent
\* is not there to read any more.
RECURSIVE WalkAll(_, _)
WalkAll(st, elements) ==
    IF elements = <<>> THEN st
    ELSE LET element == Head(elements)
         IN  IF element \notin st.doc.live
             THEN WalkAll([st EXCEPT !.stale = TRUE], Tail(elements))
             ELSE WalkAll([st EXCEPT !.doc = WalkUp(st.doc, st.doc.nodes[element].parent)],
                          Tail(elements))

\* lines 234-241
RECURSIVE TextPass(_, _)
TextPass(st, k) ==
    IF k > Len(text_patterns) THEN st
    ELSE TextPass(WalkAll(st, FindByString(st.doc, k)), k + 1)

\* The three passes over the parsed markup
StripPasses(html_content) ==
    TextPass([doc |-> ClassPass(IdPass(Parse(html_content), 1), 1), stale |-> FALSE], 1)

\* What a call can come to: the cleaned markup, or, where the loop read the
\* parent of a decomposed string, either an AttributeError or (a build that
\* answers None) the cleaned markup all the same.
remove_overlays_and_clean_content(html_content) ==
    IF html_content = <<>> THEN {[raised |-> FALSE, html |-> html_content]}
    ELSE LET st == StripPasses(html_content)
         IN  {[raised |-> FALSE, html |-> Serialize(st.doc)]}
               \cup (IF st.stale THEN {[raised |-> TRUE, html |-> <<>>]} ELSE {})

----------------------------------------------------------------------------
(* CSS selectors: soup.select, soup.select_one, soup.find *)

AnyC == [kind |-> "any", name |-> "", value |-> ""]
TagC(t) == [kind |-> "tag", name |-> t, value |-> ""]
ClassC(c) == [kind |-> "class", name |-> c, value |-> ""]
IdC(i) == [kind |-> "id", name |-> i, value |-> ""]
AttrC(a, v) == [kind |-> "attr", name |-> a, value |-> v]

\* a compound selector alone, or under an ancestor ('main article')
Only(c) == [anc |-> AnyC, self |-> c]
Under(a, c) == [anc |-> a, self |-> c]

MatchesCompound(node, c) ==
    CASE c.kind = "any"   -> TRUE
      [] c.kind = "tag"   -> node.tag = c.name
      [] c.kind = "class" -> \E k \in DOMAIN node.at.class : node.at.class[k] = c.name
      [] c.kind = "id"    -> node.at.id = c.name
      [] c.kind = "attr"  -> node.at[c.name] = c.value

\* soup.select(selector): the live elements the selector matches, in document order
select(doc, sel) ==
    Ordered({i \in doc.live :
                /\ ~IsText(doc.nodes, i)
                /\ MatchesCompound(doc.nodes[i], sel.self)
                /\ \/ sel.anc.kind = "any"
                   \/ \E a \in Ancestors(doc.nodes, i) :
                          MatchesCompound(doc.nodes[a], sel.anc)})

content_selectors ==
    <<Only(TagC("article")),
      Only(AttrC("itemprop", "articleBody")),
      Only(ClassC("article-content")),
      Only(ClassC("article-body")),
      Only(ClassC("story-content")),
      Only(ClassC("post-content")),
      Under(TagC("main"), TagC("article")),
      Under(TagC("main"), ClassC("article")),
      Under(ClassC("main-content"), TagC("article")),
      Under(ClassC("content-area"), TagC("article")),
      Only(ClassC("entry-content")),
      Only(ClassC("post-body")),
      Only(ClassC("story-body")),
      Only(AttrC("role", "main")),
      Only(ClassC("caas-body")),
      Only(TagC("main")),
      Only(IdC("main-content")),
      Only(ClassC("main-content"))>>

title_selectors ==
    <<Only(AttrC("itemprop", "headline")), Only(ClassC("article-title")),
      Only(ClassC("entry-title")), Only(ClassC("post-title")),
      Only(ClassC("story-title"))>>

date_selectors ==
    <<Only(AttrC("itemprop", "datePublished")), Only(ClassC("article-date")),
      Only(ClassC("post-date")), Only(ClassC("published-date")),
      Only(TagC("time"))>>

author_selectors ==
    <<Only(AttrC("itemprop", "author")), Only(ClassC("article-author")),
      Only(ClassC("post-author")), Only(ClassC("author-name")),
      Only(ClassC("byline"))>>

\* Python's None and a present value
None == <<>>
Some(x) == <<x>>

----------------------------------------------------------------------------
(* The content cascade, lines 90-107 *)

\* the tags line 97 removes from a matched element
Unwanted == {"script", "style", "iframe", "noscript", "form"}

\* the length a block's text must exceed, line 102
MinBlockLen == 100

\* an acceptance test that lets a block of exactly 100 characters in
AcceptsAtLimit(text) == text # "" /\ Len(text) >= MinBlockLen

\* line 102
Accepts(text) == text # "" /\ Len(text) > MinBlockLen

\* lines 96-104, for the elements one selector matched
RECURSIVE ForContents(_, _)
ForContents(st, contents) ==
    IF contents = <<>> THEN st
    ELSE LET content == Head(contents)
             inside  == {u \in Subtree(st.soup, content) \ {content} :
                            st.soup.nodes[u].tag \in Unwanted}
             pruned  == DecomposeAll(st.soup, inside)
             text    == clean_text(get_text(pruned, content))
         IN  ForContents(
               IF Accepts(text)
               THEN [st EXCEPT !.soup = pruned,
                               !.full_content = Append(@, text),
                               !.found_content = TRUE]
               ELSE [st EXCEPT !.soup = pruned],
               Tail(contents))

\* whether the loop over the selectors stops after selector k, lines 106-107
StopsAfter(st, k) == st.found_content

\* lines 93-107, from selector k on; selector is the one the loop ended at
RECURSIVE Cascade(_, _)
Cascade(st, k) ==
    IF k > Len(content_selectors) THEN st
    ELSE LET after == ForContents([st EXCEPT !.selector = k],
                                  select(st.soup, content_selectors[k]))
         IN  IF StopsAfter(after, k) THEN after ELSE Cascade(after, k + 1)

----------------------------------------------------------------------------
(* Metadata recovery, lines 125-169 *)

\* soup.find(tag) / soup.select_one(selector): the first match, if any
find(doc, tag) == Ordered({i \in doc.live : doc.nodes[i].tag = tag})

Text(doc, i) == strip(get_text(doc, i))

\* the truth value of a title: None and "" are false
IsFalsy(opt) == opt = None \/ opt[1] = ""

\* lines 136-140, from selector k on
RECURSIVE TitleFrom(_, _, _)
TitleFrom(doc, title, k) ==
    IF k > Len(title_selectors) THEN title
    ELSE LET title_elem == select(doc, title_selectors[k])
         IN  IF title_elem # <<>>
             THEN Some(Text(doc, Head(title_elem)))
             ELSE TitleFrom(doc, title, k + 1)

\* lines 125-140
Title(doc) ==
    LET h1    == find(doc, "h1")
        title == IF h1 = <<>> THEN None ELSE Some(Text(doc, Head(h1)))
    IN  IF IsFalsy(title) THEN TitleFrom(doc, title, 1) ELSE title

\* lines 142-154
RECURSIVE DateFrom(_, _)
DateFrom(doc, k) ==
    IF k > Len(date_selectors) THEN None
    ELSE LET date_elem == select(doc, date_selectors[k])
         IN  IF date_elem # <<>>
             THEN LET e == doc.nodes[Head(date_elem)]
                  IN  IF e.at.datetime # <<>> THEN Some(e.at.datetime[1])
                      ELSE Some(Text(doc, Head(date_elem)))
             ELSE DateFrom(doc, k + 1)

\* a membership test that ignores letter case
AlreadyListedAnyCase(author, authors) ==
    \E i \in DOMAIN authors : Lower(authors[i]) = Lower(author)

\* line 168: whether author is already in the list
AlreadyListed(author, authors) == \E i \in DOMAIN authors : authors[i] = author

\* lines 166-169
RECURSIVE AuthorsOf(_, _, _)
AuthorsOf(doc, authors, author_elems) ==
    IF author_elems = <<>> THEN authors
    ELSE LET author == Text(doc, Head(author_elems))
         IN  AuthorsOf(doc,
                       IF author # "" /\ ~AlreadyListed(author, authors)
                       THEN Append(authors, author) ELSE authors,
                       Tail(author_elems))

\* lines 164-169, from selector k on
RECURSIVE AuthorsFrom(_, _, _)
AuthorsFrom(doc, authors, k) ==
    IF k > Len(author_selectors) THEN authors
    ELSE AuthorsFrom(doc, AuthorsOf(doc, authors, select(doc, author_selectors[k])), k + 1)

----------------------------------------------------------------------------
(* The proxies, lines 245-316, and clean_input_text, lines 184-185 *)

\* What f_zyte_proxy(url) can return when the site renders content: None when
\* the request or the cleaning fails, the cleaned markup otherwise.  calls is
\* the number of times the noise stripper ran.
f_zyte_proxy(content) ==
    {[response |-> None, calls |-> 0]}
      \cup {[response |-> IF r.raised THEN None ELSE Some(r.html), calls |-> 1] :
              r \in remove_overlays_and_clean_content(content)}

\* f_oxylabs_proxy(url): the same, and None for a status other than 200
f_oxylabs_proxy(content) ==
    {[response |-> None, calls |-> 0]}
      \cup {[response |-> IF r.raised THEN None ELSE Some(r.html), calls |-> 1] :
              r \in remove_overlays_and_clean_content(content)}

\* line 53: None and the empty string are false
NoResponse(r) == r = None \/ r[1] = <<>>

lstrip(s) ==
    IF \A i \in 1..Len(s) : IsSpace(s, i) THEN ""
    ELSE SubSeq(s, CHOOSE i \in 1..Len(s) :
                      ~IsSpace(s, i) /\ \A j \in 1..(i - 1) : IsSpace(s, j), Len(s))

rstrip(s) ==
    IF \A i \in 1..Len(s) : IsSpace(s, i) THEN ""
    ELSE SubSeq(s, 1, CHOOSE i \in 1..Len(s) :
                         ~IsSpace(s, i) /\ \A j \in (i + 1)..Len(s) : IsSpace(s, j))

\* text.strip() on markup: only a string that starts or ends the markup, outside
\* every element, has whitespace to lose
clean_input_text(text) ==
    IF text = <<>> THEN <<>>
    ELSE LET n == Len(text)
             edge(i) == IsText(text, i) /\ text[i].parent = 0
             cut == [i \in 1..n |->
                      IF i = 1 /\ i = n /\ edge(i) THEN Flat(Tx(strip(text[i].text)), 0)
                      ELSE IF i = 1 /\ edge(i) THEN Flat(Tx(lstrip(text[i].text)), 0)
                      ELSE IF i = n /\ edge(i) THEN Flat(Tx(rstrip(text[i].text)), 0)
                      ELSE text[i]]
         IN  Serialize(Parse(cut))

----------------------------------------------------------------------------
(* extract_article, lines 42-182 *)

Providers == {"oxylabs", "zyte"}

\* before the call returns
NoResult == [pending |-> TRUE]

\* a handler that catches ValueError alone and lets the rest through
HandlerValueErrorOnly(e) ==
    IF e.type = "ValueError"
    THEN [raised |-> FALSE, result |-> [url |-> url, error |-> e.msg]]
    ELSE [raised |-> TRUE, result |-> NoResult]

\* lines 180-182: except Exception
Handler(e) == [raised |-> FALSE, result |-> [url |-> url, error |-> e.msg]]

Raise(e) ==
    /\ pc' = "done"
    /\ result' = Handler(e).result
    /\ raised' = Handler(e).raised

Return(r) ==
    /\ pc' = "done"
    /\ result' = r
    /\ UNCHANGED raised

\* the arguments a call is made with
Languages == {"en", "de"}
Calls == (Providers \X Languages) \cup {<<"scrapy", "en">>}

\* lines 42-54, for a call extract_article(url, use_proxy, language)
Fetch ==
    /\ pc = "call"
    /\ LET zyte == f_zyte_proxy(page)
           oxylabs == f_oxylabs_proxy(page)
       IN  \E call \in Calls :
              /\ use_proxy' = call[1]
              /\ language' = call[2]
              /\ IF call[1] \notin Providers
                 THEN /\ Raise([type |-> "ValueError",
                                msg |-> "Invalid proxy provider: " \o call[1]])
                      /\ UNCHANGED <<response, strip_calls>>
                 ELSE \E fetched \in (IF call[1] = "oxylabs" THEN oxylabs ELSE zyte) :
                         /\ response' = fetched.response
                         /\ strip_calls' = strip_calls + fetched.calls
                         /\ IF NoResponse(fetched.response)
                            THEN Return([url |-> url, error |-> "No response from proxy"])
                            ELSE pc' = "fetched" /\ UNCHANGED <<result, raised>>
    /\ UNCHANGED <<url, page, cleaned_html, soup, selector, full_content, found_content,
                   article_text, normVars>>

\* lines 56-59; the parser is a collaborator that may fail
Clean ==
    /\ pc = "fetched"
    /\ \E stripped \in {clean_input_text(response[1])}, parsed \in BOOLEAN :
       \E r \in remove_overlays_and_clean_content(stripped) :
          /\ response' = Some(stripped)
          /\ strip_calls' = strip_calls + 1
          /\ IF r.raised
             THEN /\ Raise([type |-> "AttributeError",
                            msg |-> "'NavigableString' object has no attribute 'parent'"])
                  /\ UNCHANGED <<cleaned_html, soup>>
             ELSE /\ cleaned_html' = r.html
                  /\ IF parsed
                     THEN /\ soup' = Parse(r.html)
                          /\ pc' = "cleaned"
                          /\ UNCHANGED <<result, raised>>
                     ELSE /\ Raise([type |-> "ParserRejectedMarkup", msg |-> "parser failed"])
                          /\ UNCHANGED soup
    /\ UNCHANGED <<url, use_proxy, language, page, selector, full_content, found_content,
                   article_text, normVars>>

\* lines 90-107; the selector engine is a collaborator that may fail
Locate ==
    /\ pc = "cleaned"
    /\ \E selected \in BOOLEAN :
          IF selected
          THEN \E st \in {Cascade([soup |-> soup, full_content |-> <<>>,
                                    found_content |-> FALSE, selector |-> 0], 1)} :
                   /\ soup' = st.soup
                   /\ full_content' = st.full_content
                   /\ found_content' = st.found_content
                   /\ selector' = st.selector
                   /\ pc' = IF st.found_content THEN "located" ELSE "fallback"
                   /\ UNCHANGED <<result, raised>>
          ELSE /\ Raise([type |-> "SelectorSyntaxError", msg |-> "selector failed"])
               /\ UNCHANGED <<soup, full_content, found_content, selector>>
    /\ UNCHANGED <<url, use_proxy, language, page, response, cleaned_html, article_text,
                   strip_calls, normVars>>

\* what Article(url, language).download(input_html).parse() can leave in article.text
FallbackTexts ==
    {"", " \n", "Read more", "read read more more",
     "A story the generic extractor found.\n\nRead more"}

\* a fallback that keeps the normalized text without looking at it
FallbackBlocksUnchecked(text) ==
    IF text # "" THEN <<clean_text(text)>> ELSE <<>>

\* lines 114-117: what article.text adds to full_content
FallbackBlocks(text) ==
    IF text # "" /\ clean_text(text) # "" THEN <<clean_text(text)>> ELSE <<>>

\* lines 109-117; the fallback extractor is a collaborator that may fail
Fallback ==
    /\ pc = "fallback"
    /\ \E article \in {[text |-> t, blocks |-> FallbackBlocks(t)] : t \in FallbackTexts},
          extracted \in BOOLEAN :
          IF extracted
          THEN /\ article_text' = Some(article.text)
               /\ full_content' = full_content \o article.blocks
               /\ pc' = "located"
               /\ UNCHANGED <<result, raised>>
          ELSE /\ Raise([type |-> "ArticleException", msg |-> "fallback failed"])
               /\ UNCHANGED <<article_text, full_content>>
    /\ UNCHANGED <<url, use_proxy, language, page, response, cleaned_html, soup, selector,
                   found_content, strip_calls, normVars>>

\* '\n\n'.join(full_content), line 122
RECURSIVE Join(_)
Join(blocks) ==
    IF Len(blocks) = 1 THEN blocks[1] ELSE blocks[1] \o "\n\n" \o Join(Tail(blocks))

\* lines 119-178
Assemble ==
    /\ pc = "located"
    /\ IF full_content = <<>>
       THEN Return([url |-> url, error |-> "No content found"])
       ELSE \E selected \in BOOLEAN :
               IF selected
               THEN Return([url          |-> url,
                            title        |-> Title(soup),
                            text         |-> clean_text(Join(full_content)),
                            authors      |-> AuthorsFrom(soup, <<>>, 1),
                            publish_date |-> DateFrom(soup, 1),
                            method       |-> use_proxy])
               ELSE Raise([type |-> "SelectorSyntaxError", msg |-> "selector failed"])
    /\ UNCHANGED <<url, use_proxy, language, page, response, cleaned_html, soup, selector,
                   full_content, found_content, article_text, strip_calls, normVars>>

Next == Fetch \/ Clean \/ Locate \/ Fallback \/ Assemble

----------------------------------------------------------------------------
(* The pages the calls are made on *)

\* n copies of s
RECURSIVE Rep(_, _)
Rep(s, n) ==
    IF n = 0 THEN ""
    ELSE LET h == Rep(s, n \div 2)
         IN  h \o h \o (IF n % 2 = 1 THEN s ELSE "")

\* the first n characters of s repeated
Fill(s, n) == SubSeq(Rep(s, n), 1, n)

WithId(i) == [NoAttrs EXCEPT !.id = i]
WithClass(c) == [NoAttrs EXCEPT !.class = c]
WithItemprop(v) == [NoAttrs EXCEPT !.itemprop = v]
WithDatetime(v) == [NoAttrs EXCEPT !.datetime = <<v>>]

Short == Fill("brief note ", 80)
AtLimit == Fill("limit ", MinBlockLen)
Over == Fill("margin ", MinBlockLen + 1)
Body == Fill("alpha beta ", 150)
Body2 == Fill("gamma delta ", 151)
Main500 == Fill("main story text ", 500)
Echo == Rep("read read more more ", 10)
Paras == Fill("first paragraph ", 64) \o "\n \n" \o Fill("second paragraph ", 68)

\* at most this many blocks of a kind on a page
MaxBlocks == 2
MaxMeta == 2
MaxNoise == 1

ContentBlocks ==
    { El("article", NoAttrs, <<El("script", NoAttrs, <<Tx("track()")>>), Tx(Body)>>),
      El("div", WithItemprop("articleBody"), <<Tx(Short)>>),
      El("div", WithItemprop("articleBody"), <<Tx(Body2)>>),
      El("main", NoAttrs, <<Tx(Main500)>>),
      El("main", NoAttrs, <<El("article", NoAttrs, <<Tx(AtLimit)>>)>>),
      El("div", WithClass(<<"article-body">>), <<Tx(Over)>>),
      El("article", NoAttrs,
         <<Tx("Intro. "),
           El("form", NoAttrs, <<El("div", WithClass(<<"article-content">>), <<Tx(Body)>>)>>)>>),
      El("div", WithClass(<<"story-content">>), <<Tx(Echo)>>),
      El("main", NoAttrs,
         <<El("article", NoAttrs, <<Tx(Body)>>), El("article", NoAttrs, <<Tx(Paras)>>)>>),
      El("section", NoAttrs, <<El("p", NoAttrs, <<Tx(Body)>>)>>) }

MetaBlocks ==
    { El("h1", NoAttrs, <<Tx("  Title Text\n")>>),
      El("h1", NoAttrs, <<>>),
      El("span", WithItemprop("headline"), <<>>),
      El("div", WithClass(<<"article-title">>), <<Tx(" Class Title ")>>),
      El("span", WithItemprop("author"), <<Tx("Jane Doe")>>),
      El("div", WithClass(<<"byline">>),
         <<El("span", WithClass(<<"author-name">>), <<Tx(" Jane Doe ")>>)>>),
      El("span", WithClass(<<"author-name">>), <<Tx("jane doe")>>),
      El("time", WithDatetime("2024-01-01"), <<Tx("Jan 1")>>),
      El("span", WithClass(<<"post-date">>), <<Tx(" 2 Jan 2024 ")>>) }

NoiseBlocks ==
    { El("button", NoAttrs, <<Tx("Read More")>>),
      El("section", NoAttrs,
         <<El("p", NoAttrs, <<Tx(Fill("x", WidgetLimit - 30))>>),
           El("a", NoAttrs, <<Tx(Fill("load more stories from our site ", 30))>>)>>),
      El("section", NoAttrs,
         <<Tx(Fill("Continue reading x", WidgetLimit - 20)),
           El("p", NoAttrs, <<El("a", NoAttrs, <<Tx(Fill("load more stories ", 20))>>)>>)>>),
      El("section", NoAttrs, <<El("p", NoAttrs, <<Tx(Fill("read more x", WidgetLimit))>>)>>),
      El("section", NoAttrs,
         <<El("p", NoAttrs, <<Tx(Fill("x", WidgetLimit))>>),
           El("button", NoAttrs, <<Tx("READ MORE")>>)>>),
      El("div", WithId("Advertisement-Block"), <<Tx("promo")>>),
      El("div", WithClass(<<"story", "Sponsored-Content">>), <<Tx("promo")>>),
      El("div", NoAttrs, <<Tx("read more"), El("b", NoAttrs, <<Tx("or")>>), Tx("read more")>>),
      El("p", NoAttrs, <<Tx("see "), El("a", NoAttrs, <<Tx("more stories")>>), Tx(" below")>>) }

SeqsUpTo(S, n) == UNION {[1..k -> S] : k \in 0..n}

Heading == El("h1", NoAttrs, <<Tx("Title Text")>>)
Story == El("main", NoAttrs, <<Tx(Body)>>)

Pages ==
    {<<>>, Markup(<<El("button", NoAttrs, <<Tx("Read More")>>)>>)}
      \cup {Markup(<<Heading>> \o q) : q \in SeqsUpTo(ContentBlocks, MaxBlocks)}
      \cup {Markup(q \o <<Story>>) : q \in SeqsUpTo(MetaBlocks, MaxMeta)}
      \cup {Markup(q \o <<Story, Tx("\n")>>) : q \in SeqsUpTo(NoiseBlocks, MaxNoise)}


Init ==
    /\ pc = "call"
    /\ url = "news.example/story"
    /\ use_proxy = ""
    /\ language = ""
    /\ page \in Pages
    /\ response = None
    /\ cleaned_html = <<>>
    /\ soup = Parse(<<>>)
    /\ selector = 0
    /\ full_content = <<>>
    /\ found_content = FALSE
    /\ article_text = None
    /\ result = NoResult
    /\ raised = FALSE
    /\ strip_calls = 0
    /\ norm_in = ""
    /\ norm_once = ""
    /\ norm_twice = ""

Spec == Init /\ [][Next]_vars

----------------------------------------------------------------------------
(* The result records *)

IsError(r) == DOMAIN r = {"url", "error"}

IsSuccess(r) ==
    DOMAIN r = {"url", "title", "text", "authors", "publish_date", "method"}

Range(q) == {q[i] : i \in DOMAIN q}

----------------------------------------------------------------------------
(* C1 *)

\* C1: whatever the provider, the language and the collaborators do,
\* extract_article returns one record and raises nothing: the record is
\* {url, error} or the success record, carrying the url of the call, and
\* nothing is returned before the call ends.
C1_OneRecordNeverRaises ==
    /\ ~raised
    /\ pc = "done" => /\ IsError(result) \/ IsSuccess(result)
                      /\ result.url = url
    /\ pc # "done" => result = NoResult

\* a collaborator failed (here the fallback extractor) and the call returned
\* the error record
C1_Witness ==
    /\ pc = "done"
    /\ IsError(result)
    /\ result.error = "fallback failed"

----------------------------------------------------------------------------
(* C2 *)

\* the text of element e that is not under a script/style/iframe/noscript/form
\* inside e
VisibleText(doc, e) ==
    TextOf(doc.nodes,
           Ordered({j \in Subtree(doc, e) :
                      /\ IsText(doc.nodes, j)
                      /\ \A a \in Ancestors(doc.nodes, j) :
                            (a # e /\ e \in Ancestors(doc.nodes, a))
                               => doc.nodes[a].tag \notin Unwanted}))

\* e is still in the tree when selector k is tried: it is not in (or itself) a
\* script/style/iframe/noscript/form inside an element that selector k or an
\* earlier selector matches
StillThere(doc, e, k) ==
    \A u \in {e} \cup Ancestors(doc.nodes, e) :
        doc.nodes[u].tag \in Unwanted =>
            \A m \in Ancestors(doc.nodes, u), j \in 1..k :
                m \notin Range(select(doc, content_selectors[j]))

\* the elements selector k matches whose normalized text is longer than 100
Qualifying(doc, k) ==
    SelectSeq(select(doc, content_selectors[k]),
              LAMBDA e : /\ StillThere(doc, e, k)
                         /\ Len(clean_text(VisibleText(doc, e))) > 100)

\* C2: the tier the cascade stops at is the first selector with a matched
\* element whose normalized text is longer than 100 characters; tiers whose
\* matches are all at or below 100 are passed over; the blocks collected are
\* the qualifying blocks of that tier alone, in match order; and content is
\* reported not found only when no tier has a qualifying element.
C2_FirstQualifyingTierWins ==
    (pc = "fallback" \/ (pc = "located" /\ found_content)) =>
        LET doc == Parse(cleaned_html)
            tiers == DOMAIN content_selectors
        IN  IF \A k \in tiers : Qualifying(doc, k) = <<>>
            THEN ~found_content /\ full_content = <<>>
            ELSE LET w == CHOOSE k \in tiers :
                              /\ Qualifying(doc, k) # <<>>
                              /\ \A j \in 1..(k - 1) : Qualifying(doc, j) = <<>>
                     q == Qualifying(doc, w)
                 IN  /\ found_content
                     /\ selector = w
                     /\ full_content =
                          [i \in DOMAIN q |-> clean_text(VisibleText(doc, q[i]))]

\* an [itemprop="articleBody"] element at or below 100 characters was passed
\* over and the bare main element, fifteen tiers on, won
C2_Witness ==
    /\ pc = "located"
    /\ found_content
    /\ selector = 16
    /\ select(Parse(cleaned_html), content_selectors[2]) # <<>>

----------------------------------------------------------------------------
(* C3 *)

\* element e or an ancestor of it goes in the id pass or the class pass
RemovedByAttribute(doc, e) ==
    \E a \in {e} \cup Ancestors(doc.nodes, e) :
        \/ \E k \in DOMAIN removal_ids : a \in FindById(doc, removal_ids[k])
        \/ \E k \in DOMAIN removal_classes : a \in FindByClass(doc, removal_classes[k])

\* C3: the text-pattern pass never removes a section that holds a string
\* matching a noise phrase and whose text in the input document is 1000
\* characters or more (and that the id and class passes leave), and it removes
\* a button under 1000 characters whose own string matches "read more".
C3_LargeSectionKept ==
    (pc = "fetched" /\ strip_calls = 1) =>
        LET doc == Parse(page)
            out == StripPasses(page).doc
        IN  /\ \A e \in doc.live :
                  ( /\ doc.nodes[e].tag = "section"
                    /\ Len(get_text(doc, e)) >= WidgetLimit
                    /\ \E j \in Subtree(doc, e) : doc.nodes[j].matches # {}
                    /\ ~RemovedByAttribute(doc, e) )
                  => e \in out.live
            /\ \A e \in doc.live :
                  ( /\ doc.nodes[e].tag = "button"
                    /\ Len(get_text(doc, e)) < WidgetLimit
                    /\ \E j \in Subtree(doc, e) :
                          doc.nodes[j].parent = e /\ 2 \in doc.nodes[j].matches )
                  => e \notin out.live

----------------------------------------------------------------------------
(* C5 *)

\* C5: a record returned without an error has a text that is not empty
C5_SuccessHasText ==
    (pc = "done" /\ IsSuccess(result)) => result.text # ""

----------------------------------------------------------------------------
(* C6 *)

\* C6: when the fetch succeeded, no tier of the cascade found a block and the
\* fallback extractor's text is empty, or empty once normalized, the call
\* returns exactly {url, error: "No content found"}
C6_NoContentFound ==
    ( /\ pc = "done"
      /\ ~found_content
      /\ article_text # None
      /\ clean_text(article_text[1]) = "" )
    => result = [url |-> url, error |-> "No content found"]

\* the fallback extractor gave "Read more", which normalizes to nothing
C6_Witness ==
    /\ pc = "done"
    /\ article_text = Some("Read more")
    /\ IsError(result)
    /\ result.error = "No content found"

----------------------------------------------------------------------------
(* C7 *)

\* the trimmed texts of the elements the author selectors match, tier by
\* tier, each tier in document order
RECURSIVE AuthorTexts(_, _)
AuthorTexts(doc, k) ==
    IF k > Len(author_selectors) THEN <<>>
    ELSE LET found == select(doc, author_selectors[k])
         IN  [i \in DOMAIN found |-> Text(doc, found[i])] \o AuthorTexts(doc, k + 1)

FirstAt(q, x) == CHOOSE i \in DOMAIN q : q[i] = x /\ \A j \in 1..(i - 1) : q[j] # x

\* C7: the authors of a success record are the distinct non-empty trimmed
\* texts of all the elements the author selectors match, over every tier, in
\* the order of their first occurrence, told apart by exact comparison
C7_AuthorsDistinctInOrder ==
    (pc = "done" /\ IsSuccess(result)) =>
        LET all == AuthorTexts(soup, 1)
            authors == result.authors
        IN  /\ \A i, j \in DOMAIN authors : authors[i] = authors[j] => i = j
            /\ Range(authors) = Range(all) \ {""}
            /\ \A i, j \in DOMAIN authors :
                  i < j => FirstAt(all, authors[i]) < FirstAt(all, authors[j])

\* "Jane Doe" matched twice and "jane doe" once give the two of them
C7_Witness ==
    /\ pc = "done"
    /\ IsSuccess(result)
    /\ result.authors = <<"Jane Doe", "jane doe">>
    /\ Len(AuthorTexts(soup, 1)) = 3

----------------------------------------------------------------------------
(* C8 *)

\* C8: when the winning tier has two or more accepted blocks, the text of the
\* result is those blocks, in match order, with "\n\n" between them
C8_BlocksKeepBlankLine ==
    (pc = "done" /\ IsSuccess(result) /\ found_content /\ Len(full_content) >= 2)
        => result.text = Join(full_content)

----------------------------------------------------------------------------
(* C9 *)

\* the trimmed texts of the elements the title selectors match, selector by
\* selector, each in document order
RECURSIVE TitleTexts(_, _)
TitleTexts(doc, k) ==
    IF k > Len(title_selectors) THEN <<>>
    ELSE LET found == select(doc, title_selectors[k])
         IN  [i \in DOMAIN found |-> Text(doc, found[i])] \o TitleTexts(doc, k + 1)

\* C9: with no h1, or an h1 without text, the title is the trimmed text of the
\* first element in title-selector order whose text is not empty, and it is
\* absent or empty only if there is no such element
C9_TitleFirstNonEmpty ==
    ( /\ pc = "done"
      /\ IsSuccess(result)
      /\ \A h \in Range(find(soup, "h1")) : Text(soup, h) = "" )
    => LET texts == SelectSeq(TitleTexts(soup, 1), LAMBDA t : t # "")
       IN  IF texts = <<>> THEN IsFalsy(result.title)
           ELSE result.title = Some(texts[1])

----------------------------------------------------------------------------
(* C10 *)

\* C10: a call that gets a proxy response runs the noise stripper once
\* between the fetch and the cascade: the markup the cascade works on is the
\* proxy's markup after one application of the three passes
C10_StrippedOnce ==
    pc = "cleaned" =>
        /\ strip_calls = 1
        /\ cleaned_html = clean_input_text(Serialize(StripPasses(page).doc))

\* a call where the second application took out what the first had left
TwiceIsNotOnce ==
    /\ pc = "cleaned"
    /\ cleaned_html # clean_input_text(Serialize(StripPasses(page).doc))

----------------------------------------------------------------------------
(* SpecNorm: clean_text as a pure function, applied once and again *)

MaxPieces == 3

Pieces == {"read more", "read ", "more", " ", "\n", "Al", "ADVERTISEMENT", "x"}

RECURSIVE Concat(_)
Concat(seq) == IF seq = <<>> THEN "" ELSE Head(seq) \o Concat(Tail(seq))

NormTexts == {Concat(q) : q \in UNION {[1..n -> Pieces] : n \in 0..MaxPieces}}

InitNorm ==
    /\ pc = "norm0"
    /\ norm_in \in NormTexts
    /\ norm_once = ""
    /\ norm_twice = ""
    /\ url = ""
    /\ use_proxy = "zyte"
    /\ language = "en"
    /\ page = <<>>
    /\ response = None
    /\ cleaned_html = <<>>
    /\ soup = Parse(<<>>)
    /\ selector = 0
    /\ full_content = <<>>
    /\ found_content = FALSE
    /\ article_text = None
    /\ result = NoResult
    /\ raised = FALSE
    /\ strip_calls = 0

NormOnce ==
    /\ pc = "norm0"
    /\ norm_once' = clean_text(norm_in)
    /\ pc' = "norm1"
    /\ UNCHANGED <<norm_in, norm_twice, callVars>>

NormTwice ==
    /\ pc = "norm1"
    /\ norm_twice' = clean_text(norm_once)
    /\ pc' = "norm2"
    /\ UNCHANGED <<norm_in, norm_once, callVars>>

NextNorm == NormOnce \/ NormTwice

SpecNorm == InitNorm /\ [][NextNorm]_vars

\* C4: clean_text is idempotent: clean_text(clean_text(t)) = clean_text(t) for
\* every text t
C4_Idempotent == pc = "norm2" => norm_twice = norm_once

====
